---- MODULE Spec2Model ----
(***************************************************************************)
(* A model of the itinerary core of the Lille trip planner                 *)
(* (src/src/planner.py): the distance utility _haversine, the selectors    *)
(* _pick_nearby, _pick_one and pick_unique_hotel, and the day loop of      *)
(* TravelPlanner.plan_trip.                                                *)
(*                                                                         *)
(* Specifications:                                                         *)
(*   Spec      one plan_trip invocation, one action per selection step;    *)
(*   SpecPick  single calls of _pick_nearby on bounded pools;              *)
(*   SpecTie   single calls of _pick_nearby on pools with distance ties;   *)
(*   SpecOne   single calls of _pick_one on bounded pools;                 *)
(*   SpecHav   single calls of _haversine on a grid of points;             *)
(*   SpecTwo   two plan_trip invocations, interleaved step by step;        *)
(*   SpecLive  one plan_trip invocation under weak fairness of its steps;  *)
(*   SpecHotel one plan_trip invocation on hotels of every kind;           *)
(*   SpecTrain one TrainService.search_trips call (src/src/services.py);   *)
(*   SpecFetch one fetch_all_paginated call (src/scripts/utils.py).        *)
(***************************************************************************)
EXTENDS Integers, Sequences, FiniteSets, TLC

VARIABLES
    pc,                 \* position of the plan_trip invocation
    start_date,         \* argument: [y, m, d]
    nb_days,            \* argument
    hotels,             \* argument: sequence of POI records
    restaurants,        \* argument
    sites,              \* argument
    hotel,              \* local: <<>> for None, <<h>> for a hotel
    restaurants_ok,     \* local
    sites_ok,           \* local
    used_restaurants,   \* local: set of names
    used_activities,    \* local: set of names
    plan,               \* local: sequence of day records
    i,                  \* loop variable of range(nb_days)
    d,                  \* local: formatted date of the current day
    morning,            \* local
    afternoon,          \* local
    breakfast,          \* local: <<>> for None, <<r>> for a restaurant
    lunch,              \* local
    recap,              \* the returned recap, <<>> until built
    items,              \* SpecPick: argument of a _pick_nearby call
    k,                  \* SpecPick: argument
    used,               \* SpecPick: argument
    ret,                \* SpecPick: outcome of the call
    one,                \* SpecOne: outcome of a _pick_one call
    pts,                \* SpecHav: the two points of a _haversine call
    dist,               \* SpecHav: the distances computed
    inv2,               \* SpecTwo: the locals of the second invocation
    train,              \* SpecTrain: a TrainService.search_trips call
    fetch               \* SpecFetch: a fetch_all_paginated call

planVars == <<pc, start_date, nb_days, hotels, restaurants, sites, hotel,
              restaurants_ok, sites_ok, used_restaurants, used_activities,
              plan, i, d, morning, afternoon, breakfast, lunch, recap>>
pickVars == <<items, k, used, ret>>
otherVars == <<one, pts, dist, inv2, train, fetch>>
vars == <<planVars, pickVars, otherVars>>

-----------------------------------------------------------------------------
(* Bounds *)

MaxDays == 2
MaxK == 3
MaxPool == 4

-----------------------------------------------------------------------------
(* Values.  A coordinate is what x.get("latitude") can give: None (absent   *)
(* key or null), a number (whole degrees here), or a non-empty string that  *)
(* is no number.  A name is a string; "" stands for an empty or absent name *)
(* (x.get("name") is falsy in both cases).                                  *)

NoCoord == [tag |-> "none", v |-> 0]
Num(n) == [tag |-> "num", v |-> n]
StrCoord == [tag |-> "str", v |-> 0]

\* Python truthiness of a coordinate: None and 0 are falsy, a non-empty
\* string and a non-zero number are truthy.
Truthy(c) == \/ c.tag = "num" /\ c.v # 0
             \/ c.tag = "str"

\* "present": the key holds a value (anything but None).
Present(c) == c.tag # "none"

POI(id, name, lat, lon) ==
    [id |-> id, name |-> name, latitude |-> lat, longitude |-> lon]

\* Names in ascending order, as sorted() orders them.
NameOrder == <<"", "a", "b", "c", "d", "e", "f", "g", "h", "r", "s", "t", "u">>
NameRank(n) == CHOOSE j \in 1..Len(NameOrder) : NameOrder[j] = n

-----------------------------------------------------------------------------
(* Sequence helpers *)

Range(s) == {s[j] : j \in 1..Len(s)}

RECURSIVE SubList(_, _, _)
\* The elements of s at the positions in S, in the order of s.
SubList(s, S, j) ==
    IF j > Len(s) THEN <<>>
    ELSE IF j \in S THEN <<s[j]>> \o SubList(s, S, j + 1)
    ELSE SubList(s, S, j + 1)

SubLists(s) == {SubList(s, S, 1) : S \in SUBSET (1..Len(s))}

RECURSIVE SeqsUpTo(_, _)
SeqsUpTo(S, n) ==
    IF n = 0 THEN {<<>>}
    ELSE SeqsUpTo(S, n - 1) \cup {Append(s, x) : s \in {t \in SeqsUpTo(S, n - 1) : Len(t) = n - 1}, x \in S}

-----------------------------------------------------------------------------
(* Distance utility.  Angles are whole degrees; reals are fixed-point       *)
(* integers: cosines in 1/1000, sin^2 and a in 1/10^6, square roots and the *)
(* arc tangent in 1/10^4, so the result is in units of 1/10^4 km.           *)

\* math.sin(math.radians(deg) / 2) ** 2, in 1/10^6.
SinHalfSq(deg) ==
    CASE deg = 0 -> 0
      [] deg \in {10, -10} -> 7596
      [] deg \in {20, -20} -> 30154

\* math.cos(math.radians(deg)), in 1/1000.
Cos(deg) ==
    CASE deg = 0 -> 1000
      [] deg \in {10, -10} -> 985
      [] deg \in {20, -20} -> 940
      [] deg \in {30, -30} -> 866

RECURSIVE SqrtBetween(_, _, _)
\* The largest r in lo..hi with r * r <= n.
SqrtBetween(n, lo, hi) ==
    IF lo = hi THEN lo
    ELSE LET mid == (lo + hi + 1) \div 2
         IN  IF mid * mid <= n THEN SqrtBetween(n, mid, hi)
             ELSE SqrtBetween(n, lo, mid - 1)

\* math.sqrt of a value in 1/10^6, in 1/10^4.
Sqrt(x) == SqrtBetween(x * 100, 0, 10000)

FixMul(x, y) == (x * y) \div 10000

\* math.atan2(y, x) for 0 <= y < x, both in 1/10^4, in 1/10^4 radians.
Atan2(y, x) ==
    LET t  == (y * 10000) \div x
        t3 == FixMul(FixMul(t, t), t)
        t5 == FixMul(FixMul(t3, t), t)
    IN  t - (t3 \div 3) + (t5 \div 5)

EarthRadiusKm == 6371

\* _haversine taking both cosines of the first latitude.
HaversineFirstLatitudeOnly(lat1, lon1, lat2, lon2) ==
    LET dlat == lat2 - lat1
        dlon == lon2 - lon1
        a == SinHalfSq(dlat)
             + (((Cos(lat1) * Cos(lat1)) \div 1000) * SinHalfSq(dlon)) \div 1000
    IN  EarthRadiusKm * 2 * Atan2(Sqrt(a), Sqrt(1000000 - a))

\* _haversine on numeric arguments (whole degrees).
_haversine(lat1, lon1, lat2, lon2) ==
    LET dlat == lat2 - lat1
        dlon == lon2 - lon1
        a == SinHalfSq(dlat)
             + (((Cos(lat1) * Cos(lat2)) \div 1000) * SinHalfSq(dlon)) \div 1000
    IN  EarthRadiusKm * 2 * Atan2(Sqrt(a), Sqrt(1000000 - a))

\* lat2 - lat1 and math.radians raise TypeError on a string operand.
IsNumber(c) == c.tag = "num"

HaversineRaises(ref, x) ==
    ~ (IsNumber(ref.latitude) /\ IsNumber(ref.longitude)
       /\ IsNumber(x.latitude) /\ IsNumber(x.longitude))

\* The sort key of line 94: the distance from ref to x.
DistKey(ref, x) ==
    _haversine(ref.latitude.v, ref.longitude.v, x.latitude.v, x.longitude.v)

-----------------------------------------------------------------------------
(* _pick_nearby *)

\* The outcome of a call: a returned value, or an exception that leaves it.
Returned(v) == [raised |-> FALSE, value |-> v]
Raised == [raised |-> TRUE, value |-> <<>>]

\* Available with the longitude test left out.
AvailableLatitudeOnly(pool, excluded) ==
    SelectSeq(pool, LAMBDA x : /\ x.name # ""
                               /\ x.name \notin excluded
                               /\ Truthy(x.latitude))

\* Lines 77-81: the filter of _pick_nearby.
Available(pool, excluded) ==
    SelectSeq(pool, LAMBDA x : /\ x.name # ""
                               /\ x.name \notin excluded
                               /\ Truthy(x.latitude)
                               /\ Truthy(x.longitude))

RECURSIVE InsertBeforeEqualKeys(_, _, _)
\* InsertByKey putting x before the elements of equal key: a sort that
\* is not stable.
InsertBeforeEqualKeys(s, x, ref) ==
    IF s = <<>> THEN <<x>>
    ELSE IF DistKey(ref, x) <= DistKey(ref, Head(s)) THEN <<x>> \o s
    ELSE <<Head(s)>> \o InsertBeforeEqualKeys(Tail(s), x, ref)

RECURSIVE InsertByKey(_, _, _)
\* x put into the sorted sequence s after every element whose key is not
\* larger (list.sort is stable).
InsertByKey(s, x, ref) ==
    IF s = <<>> THEN <<x>>
    ELSE IF DistKey(ref, x) < DistKey(ref, Head(s)) THEN <<x>> \o s
    ELSE <<Head(s)>> \o InsertByKey(Tail(s), x, ref)

RECURSIVE SortByDistance(_, _, _)
\* Lines 93-98: remaining.sort(key = distance from ref); acc is the part
\* sorted so far.
SortByDistance(acc, rest, ref) ==
    IF rest = <<>> THEN acc
    ELSE SortByDistance(InsertByKey(acc, Head(rest), ref), Tail(rest), ref)

RECURSIVE ChainOneMore(_, _, _)
\* The loop of the chain, had it run while the result holds at most k items.
ChainOneMore(result, remaining, kk) ==
    IF Len(result) <= kk /\ remaining # <<>>
    THEN LET ref == result[Len(result)]
         IN  IF \E j \in 1..Len(remaining) : HaversineRaises(ref, remaining[j])
             THEN Raised
             ELSE LET sorted == SortByDistance(<<>>, remaining, ref)
                  IN  ChainOneMore(Append(result, Head(sorted)), Tail(sorted), kk)
    ELSE Returned(result)

RECURSIVE Chain(_, _, _)
\* Lines 91-101: the loop of the nearest-neighbour chain.
Chain(result, remaining, kk) ==
    IF Len(result) < kk /\ remaining # <<>>
    THEN LET ref == result[Len(result)]
         IN  IF \E j \in 1..Len(remaining) : HaversineRaises(ref, remaining[j])
             THEN Raised
             ELSE LET sorted == SortByDistance(<<>>, remaining, ref)
                  IN  Chain(Append(result, Head(sorted)), Tail(sorted), kk)
    ELSE Returned(result)

RECURSIVE ChainIterations(_, _, _)
\* Lines 91-99: the number of iterations of the while loop that are
\* entered, the one that raises included.
ChainIterations(result, remaining, kk) ==
    IF Len(result) < kk /\ remaining # <<>>
    THEN LET ref == result[Len(result)]
         IN  IF \E j \in 1..Len(remaining) : HaversineRaises(ref, remaining[j])
             THEN 1
             ELSE LET sorted == SortByDistance(<<>>, remaining, ref)
                  IN  1 + ChainIterations(Append(result, Head(sorted)),
                                          Tail(sorted), kk)
    ELSE 0

\* Line 89: the candidates that are not the seed object.
Remaining(available, first) == SelectSeq(available, LAMBDA x : x.id # first.id)

\* _pick_nearby(items, k, used) with random.choice picking available[seed].
PickNearbySeeded(pool, kk, excluded, seed) ==
    LET available == Available(pool, excluded)
    IN  IF available = <<>> THEN Returned(<<>>)
        ELSE IF Len(available) <= kk THEN Returned(available)
        ELSE LET first == available[seed]
             IN  Chain(<<first>>, Remaining(available, first), kk)

\* The iterations of the while loop in _pick_nearby(pool, kk, excluded)
\* with random.choice picking available[seed].
LoopIterations(pool, kk, excluded, seed) ==
    LET available == Available(pool, excluded)
    IN  IF available = <<>> \/ Len(available) <= kk THEN 0
        ELSE ChainIterations(<<available[seed]>>,
                             Remaining(available, available[seed]), kk)

\* The list object bound to items after the call, had line 93 sorted the
\* pool itself: the pool in the order of its distances from the seed.
ItemsSortedInPlace(pool, kk, excluded, seed) ==
    LET available == Available(pool, excluded)
    IN  IF Len(available) > kk /\ kk >= 2
           /\ \A j \in 1..Len(pool) : ~ HaversineRaises(available[seed], pool[j])
        THEN SortByDistance(<<>>, pool, available[seed])
        ELSE pool

\* The list object bound to items after the call.  Lines 77 and 89 build
\* available and remaining as new lists, lines 93 and 99 sort and pop the
\* list of line 89, and no statement writes to items.
ItemsAfterPick(pool, kk, excluded, seed) == pool

\* The set bound to used after the call: every use of it is a membership
\* test (line 79).
UsedAfterPick(pool, kk, excluded, seed) == excluded

\* The seeds random.choice can draw (one dummy seed when it is not called).
Seeds(pool, kk, excluded) ==
    LET n == Len(Available(pool, excluded))
    IN  IF n > kk THEN 1..n ELSE {1}

\* Every outcome _pick_nearby(items, k, used) can have.
_pick_nearby(pool, kk, excluded) ==
    {PickNearbySeeded(pool, kk, excluded, s) : s \in Seeds(pool, kk, excluded)}

-----------------------------------------------------------------------------
(* _pick_one and pick_unique_hotel.  None is <<>>, a record r is <<r>>.      *)

\* AvailableOne with the test against the used names left out.
AvailableOneIgnoringUsed(pool, excluded) ==
    SelectSeq(pool, LAMBDA x : x.name # "")

\* AvailableOne asking for coordinates as _pick_nearby does.
AvailableOneWithCoords(pool, excluded) ==
    SelectSeq(pool, LAMBDA x : /\ x.name # "" /\ x.name \notin excluded
                               /\ Truthy(x.latitude) /\ Truthy(x.longitude))

\* Line 105.
AvailableOne(pool, excluded) ==
    SelectSeq(pool, LAMBDA x : x.name # "" /\ x.name \notin excluded)

\* _pick_one free to return None also when a record is available.
PickOneOrNone(pool, excluded) ==
    {<<x>> : x \in Range(AvailableOne(pool, excluded))} \cup {<<>>}

\* Lines 104-106: every value _pick_one(items, used) can return.
_pick_one(pool, excluded) ==
    LET available == AvailableOne(pool, excluded)
    IN  IF available # <<>> THEN {<<x>> : x \in Range(available)} ELSE {<<>>}

\* CoordsOk with the longitude test left out.
CoordsOkLatitudeOnly(pool) ==
    SelectSeq(pool, LAMBDA x : Truthy(x.latitude))

\* CoordsOk keeping every record.
CoordsOkUnfiltered(pool) == pool

\* Lines 109, 115, 116: the records with truthy latitude and longitude.
CoordsOk(pool) ==
    SelectSeq(pool, LAMBDA x : Truthy(x.latitude) /\ Truthy(x.longitude))

\* pick_unique_hotel choosing among all hotels.
pick_any_hotel(pool) ==
    IF pool # <<>> THEN {<<h>> : h \in Range(pool)} ELSE {<<>>}

\* Lines 108-110.
pick_unique_hotel(pool) ==
    LET ok == CoordsOk(pool)
    IN  IF ok # <<>> THEN {<<h>> : h \in Range(ok)} ELSE {<<>>}

-----------------------------------------------------------------------------
(* Calendar dates: start_date + timedelta(days=i) and strftime("%d-%m-%Y"). *)

IsLeap(y) == (y % 4 = 0 /\ y % 100 # 0) \/ y % 400 = 0

DaysInMonth(y, m) ==
    IF m = 2 THEN (IF IsLeap(y) THEN 29 ELSE 28)
    ELSE IF m \in {4, 6, 9, 11} THEN 30 ELSE 31

NextDay(date) ==
    IF date.d < DaysInMonth(date.y, date.m)
    THEN [date EXCEPT !.d = date.d + 1]
    ELSE IF date.m < 12 THEN [y |-> date.y, m |-> date.m + 1, d |-> 1]
    ELSE [y |-> date.y + 1, m |-> 1, d |-> 1]

RECURSIVE AddDays(_, _)
\* date + timedelta(days=n), n >= 0.
AddDays(date, n) == IF n = 0 THEN date ELSE AddDays(NextDay(date), n - 1)

Digits == <<"0", "1", "2", "3", "4", "5", "6", "7", "8", "9">>
Digit(n) == Digits[n + 1]

\* date.strftime("%d-%m-%Y") as the sequence of its ten characters.
strftime(date) ==
    << Digit(date.d \div 10), Digit(date.d % 10), "-",
       Digit(date.m \div 10), Digit(date.m % 10), "-",
       Digit(date.y \div 1000), Digit((date.y \div 100) % 10),
       Digit((date.y \div 10) % 10), Digit(date.y % 10) >>

-----------------------------------------------------------------------------
(* The inputs of the modelled invocations *)

\* The sites a pool is drawn from: two records share the name "a", one has
\* latitude 0, one has no latitude, one has a latitude that is no number,
\* one has no name.
SiteCatalogue ==
    << POI(1, "a", Num(10), Num(10)),
       POI(2, "b", Num(10), Num(20)),
       POI(3, "a", Num(20), Num(20)),
       POI(4, "c", Num(20), Num(10)),
       POI(5, "d", Num(20), Num(20)),
       POI(6, "e", NoCoord, Num(10)),
       POI(7, "f", StrCoord, Num(10)) >>

RestaurantCatalogue ==
    << POI(11, "r", Num(10), Num(10)),
       POI(12, "s", Num(10), Num(20)),
       POI(13, "r", Num(20), Num(20)),
       POI(14, "t", Num(10), NoCoord),
       POI(15, "u", Num(0), Num(10)) >>

HotelCatalogue ==
    << POI(21, "a", Num(10), Num(10)),
       POI(22, "h", NoCoord, NoCoord) >>

StartDates ==
    { [y |-> 2023, m |-> 12, d |-> 31],
      [y |-> 2024, m |-> 2, d |-> 28] }

-----------------------------------------------------------------------------
(* plan_trip, lines 112-160 *)

Names(seq) == {seq[j].name : j \in 1..Len(seq)}

DayRecord(dinner) ==
    [ day |-> i + 1,
      date |-> d,
      morning_activities |-> morning,
      afternoon_activities |-> afternoon,
      breakfast |-> breakfast,
      lunch |-> lunch,
      dinner |-> dinner ]

RECURSIVE InsertName(_, _)
InsertName(s, n) ==
    IF s = <<>> THEN <<n>>
    ELSE IF NameRank(n) < NameRank(Head(s)) THEN <<n>> \o s
    ELSE <<Head(s)>> \o InsertName(Tail(s), n)

RECURSIVE sortedDescending(_)
\* The names of a set with the largest first.
sortedDescending(S) ==
    IF S = {} THEN <<>>
    ELSE LET n == CHOOSE x \in S : \A y \in S : NameRank(x) <= NameRank(y)
         IN  Append(sortedDescending(S \ {n}), n)

RECURSIVE sorted(_)
\* sorted(a set of names): the names in ascending order.
sorted(S) ==
    IF S = {} THEN <<>>
    ELSE LET n == CHOOSE x \in S : TRUE IN InsertName(sorted(S \ {n}), n)

\* The variables of the other specifications, left alone.
ServicesIdle ==
    /\ train = <<>>
    /\ fetch = <<>>

OtherIdle ==
    /\ one = <<>>
    /\ pts = <<>>
    /\ dist = <<>>
    /\ inv2 = <<>>
    /\ ServicesIdle

Init ==
    /\ pc = "start"
    /\ start_date \in StartDates
    /\ nb_days \in 0..MaxDays
    /\ hotels \in SubLists(HotelCatalogue)
    /\ restaurants \in SubLists(RestaurantCatalogue)
    /\ sites \in SubLists(SiteCatalogue)
    /\ hotel = <<>>
    /\ restaurants_ok = <<>>
    /\ sites_ok = <<>>
    /\ used_restaurants = {}
    /\ used_activities = {}
    /\ plan = <<>>
    /\ i = 0
    /\ d = <<>>
    /\ morning = <<>>
    /\ afternoon = <<>>
    /\ breakfast = <<>>
    /\ lunch = <<>>
    /\ recap = <<>>
    /\ items = <<>>
    /\ k = 0
    /\ used = {}
    /\ ret = <<>>
    /\ OtherIdle

\* Lines 113-122: the hotel, the filtered pools, the empty usage sets, and
\* the entry of the day loop.
Start ==
    /\ pc = "start"
    /\ \E h \in pick_unique_hotel(hotels) : hotel' = h
    /\ restaurants_ok' = CoordsOk(restaurants)
    /\ sites_ok' = CoordsOk(sites)
    /\ used_restaurants' = {}
    /\ used_activities' = {}
    /\ plan' = <<>>
    /\ i' = 0
    /\ pc' = IF 0 < nb_days THEN "morning" ELSE "recap"
    /\ UNCHANGED <<start_date, nb_days, hotels, restaurants, sites, d,
                   morning, afternoon, breakfast, lunch, recap, pickVars, otherVars>>

\* Morning without line 127: the morning names are not recorded.
MorningNotRecorded ==
    /\ pc = "morning"
    /\ d' = strftime(AddDays(start_date, i))
    /\ \E out \in _pick_nearby(sites_ok, 2, used_activities) :
         IF out.raised
         THEN /\ pc' = "raised"
              /\ UNCHANGED morning
         ELSE /\ morning' = out.value
              /\ pc' = "afternoon"
    /\ UNCHANGED <<start_date, nb_days, hotels, restaurants, sites, hotel,
                   restaurants_ok, sites_ok, used_restaurants, plan, i,
                   used_activities, afternoon, breakfast, lunch, recap,
                   pickVars, otherVars>>

\* Lines 123-127.
Morning ==
    /\ pc = "morning"
    /\ d' = strftime(AddDays(start_date, i))
    /\ \E out \in _pick_nearby(sites_ok, 2, used_activities) :
         IF out.raised
         THEN /\ pc' = "raised"
              /\ UNCHANGED <<morning, used_activities>>
         ELSE /\ morning' = out.value
              /\ used_activities' = used_activities \cup Names(out.value)
              /\ pc' = "afternoon"
    /\ UNCHANGED <<start_date, nb_days, hotels, restaurants, sites, hotel,
                   restaurants_ok, sites_ok, used_restaurants, plan, i,
                   afternoon, breakfast, lunch, recap, pickVars, otherVars>>

\* Lines 129-131.
Afternoon ==
    /\ pc = "afternoon"
    /\ \E out \in _pick_nearby(sites_ok, 2, used_activities) :
         IF out.raised
         THEN /\ pc' = "raised"
              /\ UNCHANGED <<afternoon, used_activities>>
         ELSE /\ afternoon' = out.value
              /\ used_activities' = used_activities \cup Names(out.value)
              /\ pc' = "breakfast"
    /\ UNCHANGED <<start_date, nb_days, hotels, restaurants, sites, hotel,
                   restaurants_ok, sites_ok, used_restaurants, plan, i, d,
                   morning, breakfast, lunch, recap, pickVars, otherVars>>

\* Lines 133-135.
Breakfast ==
    /\ pc = "breakfast"
    /\ \E r \in _pick_one(restaurants_ok, used_restaurants) :
         /\ breakfast' = r
         /\ used_restaurants' = used_restaurants \cup Names(r)
    /\ pc' = "lunch"
    /\ UNCHANGED <<start_date, nb_days, hotels, restaurants, sites, hotel,
                   restaurants_ok, sites_ok, used_activities, plan, i, d,
                   morning, afternoon, lunch, recap, pickVars, otherVars>>

\* Lines 137-139.
Lunch ==
    /\ pc = "lunch"
    /\ \E r \in _pick_one(restaurants_ok, used_restaurants) :
         /\ lunch' = r
         /\ used_restaurants' = used_restaurants \cup Names(r)
    /\ pc' = "dinner"
    /\ UNCHANGED <<start_date, nb_days, hotels, restaurants, sites, hotel,
                   restaurants_ok, sites_ok, used_activities, plan, i, d,
                   morning, afternoon, breakfast, recap, pickVars, otherVars>>

\* Dinner building the plan anew from the current day's record.
DinnerRestartingPlan ==
    /\ pc = "dinner"
    /\ \E r \in _pick_one(restaurants_ok, used_restaurants) :
         /\ used_restaurants' = used_restaurants \cup Names(r)
         /\ plan' = <<DayRecord(r)>>
    /\ i' = i + 1
    /\ pc' = IF i + 1 < nb_days THEN "morning" ELSE "recap"
    /\ UNCHANGED <<start_date, nb_days, hotels, restaurants, sites, hotel,
                   restaurants_ok, sites_ok, used_activities, d,
                   morning, afternoon, breakfast, lunch, recap, pickVars, otherVars>>

\* Lines 141-153, and the step of the loop to the next day or out of it.
Dinner ==
    /\ pc = "dinner"
    /\ \E r \in _pick_one(restaurants_ok, used_restaurants) :
         /\ used_restaurants' = used_restaurants \cup Names(r)
         /\ plan' = Append(plan, DayRecord(r))
    /\ i' = i + 1
    /\ pc' = IF i + 1 < nb_days THEN "morning" ELSE "recap"
    /\ UNCHANGED <<start_date, nb_days, hotels, restaurants, sites, hotel,
                   restaurants_ok, sites_ok, used_activities, d,
                   morning, afternoon, breakfast, lunch, recap, pickVars, otherVars>>

\* Lines 155-160: the recap, and the return.  The hotel field is <<>> for
\* None and <<name>> for a name.
Recap ==
    /\ pc = "recap"
    /\ recap' = << [ hotel |-> (IF hotel = <<>> THEN <<>> ELSE <<hotel[1].name>>),
                     unique_restaurants |-> sorted(used_restaurants),
                     unique_activities |-> sorted(used_activities) ] >>
    /\ pc' = "done"
    /\ UNCHANGED <<start_date, nb_days, hotels, restaurants, sites, hotel,
                   restaurants_ok, sites_ok, used_restaurants,
                   used_activities, plan, i, d, morning, afternoon,
                   breakfast, lunch, pickVars, otherVars>>

Next == Start \/ Morning \/ Afternoon \/ Breakfast \/ Lunch \/ Dinner \/ Recap

Spec == Init /\ [][Next]_vars

-----------------------------------------------------------------------------
(* Single calls of _pick_nearby *)

\* The records a pool of a single call is built from; a pool may list a
\* record (the same object) more than once.
PickCatalogue ==
    { POI(1, "a", Num(10), Num(10)),
      POI(2, "b", Num(10), Num(20)),
      POI(3, "a", Num(20), Num(20)),
      POI(4, "c", Num(20), Num(10)),
      POI(5, "d", Num(0), Num(10)),
      POI(6, "e", Num(10), NoCoord),
      POI(7, "f", StrCoord, Num(10)),
      POI(8, "", Num(10), Num(10)) }

UsedSets == {{}, {"a"}}

InitPick ==
    /\ pc = "idle"
    /\ start_date = [y |-> 2024, m |-> 1, d |-> 1]
    /\ nb_days = 0
    /\ hotels = <<>>
    /\ restaurants = <<>>
    /\ sites = <<>>
    /\ hotel = <<>>
    /\ restaurants_ok = <<>>
    /\ sites_ok = <<>>
    /\ used_restaurants = {}
    /\ used_activities = {}
    /\ plan = <<>>
    /\ i = 0
    /\ d = <<>>
    /\ morning = <<>>
    /\ afternoon = <<>>
    /\ breakfast = <<>>
    /\ lunch = <<>>
    /\ recap = <<>>
    /\ items \in SeqsUpTo(PickCatalogue, MaxPool)
    /\ k \in 0..MaxK
    /\ used \in UsedSets
    /\ ret = <<>>
    /\ OtherIdle

\* One call _pick_nearby(items, k, used); ret holds its outcome, items and
\* used the lists the caller holds after the call.
CallPickNearby ==
    /\ ret = <<>>
    /\ \E s \in Seeds(items, k, used) :
         /\ ret' = <<PickNearbySeeded(items, k, used, s)>>
         /\ items' = ItemsAfterPick(items, k, used, s)
         /\ used' = UsedAfterPick(items, k, used, s)
    /\ UNCHANGED <<k, planVars, otherVars>>

NextPick == CallPickNearby

SpecPick == InitPick /\ [][NextPick]_vars

-----------------------------------------------------------------------------
(* Single calls of _pick_one *)

\* No plan_trip invocation in progress.
PlanIdle ==
    /\ pc = "idle"
    /\ start_date = [y |-> 2024, m |-> 1, d |-> 1]
    /\ nb_days = 0
    /\ hotels = <<>>
    /\ restaurants = <<>>
    /\ sites = <<>>
    /\ hotel = <<>>
    /\ restaurants_ok = <<>>
    /\ sites_ok = <<>>
    /\ used_restaurants = {}
    /\ used_activities = {}
    /\ plan = <<>>
    /\ i = 0
    /\ d = <<>>
    /\ morning = <<>>
    /\ afternoon = <<>>
    /\ breakfast = <<>>
    /\ lunch = <<>>
    /\ recap = <<>>

InitOne ==
    /\ PlanIdle
    /\ items \in SeqsUpTo(PickCatalogue, MaxPool)
    /\ k = 0
    /\ used \in UsedSets
    /\ ret = <<>>
    /\ one = <<>>
    /\ pts = <<>>
    /\ dist = <<>>
    /\ inv2 = <<>>
    /\ ServicesIdle

\* One call _pick_one(items, used); one holds the value returned.
CallPickOne ==
    /\ one = <<>>
    /\ \E r \in _pick_one(items, used) : one' = <<r>>
    /\ UNCHANGED <<planVars, pickVars, pts, dist, inv2, train, fetch>>

NextOne == CallPickOne

SpecOne == InitOne /\ [][NextOne]_vars

-----------------------------------------------------------------------------
(* Single calls of _pick_nearby on pools with candidates at equal distance *)

\* Four sites on a grid of 10 degrees: the second is at the same distance
\* from the third and the fourth, the first is nearer to the fourth.
TieCatalogue ==
    { POI(31, "a", Num(20), Num(10)),
      POI(32, "b", Num(20), Num(20)),
      POI(33, "c", Num(10), Num(20)),
      POI(34, "d", Num(30), Num(20)) }

InitTie ==
    /\ PlanIdle
    /\ items \in SeqsUpTo(TieCatalogue, MaxPool)
    /\ k \in 0..MaxK
    /\ used = {}
    /\ ret = <<>>
    /\ OtherIdle

SpecTie == InitTie /\ [][NextPick]_vars

-----------------------------------------------------------------------------
(* Single calls of _haversine *)

\* The whole degrees of the coordinates used.
Degrees == {0, 10, 20}

InitHav ==
    /\ PlanIdle
    /\ items = <<>>
    /\ k = 0
    /\ used = {}
    /\ ret = <<>>
    /\ one = <<>>
    /\ pts \in {<<[lat |-> la, lon |-> lo], [lat |-> lb, lon |-> lp]>> :
                  la \in Degrees, lo \in Degrees, lb \in Degrees, lp \in Degrees}
    /\ dist = <<>>
    /\ inv2 = <<>>
    /\ ServicesIdle

\* The calls _haversine(A, B), _haversine(B, A) and _haversine(A, A) on the
\* two points A and B of pts; dist holds the three values returned.
CallHaversine ==
    /\ dist = <<>>
    /\ LET A == pts[1]
           B == pts[2]
       IN  dist' = << [ ab |-> _haversine(A.lat, A.lon, B.lat, B.lon),
                        ba |-> _haversine(B.lat, B.lon, A.lat, A.lon),
                        aa |-> _haversine(A.lat, A.lon, A.lat, A.lon) ] >>
    /\ UNCHANGED <<planVars, pickVars, one, pts, inv2, train, fetch>>

NextHav == CallHaversine

SpecHav == InitHav /\ [][NextHav]_vars

-----------------------------------------------------------------------------
(* Two plan_trip invocations.The first runs in the variables of Spec, the *)
(* second in the record inv2, which holds the arguments and the locals of   *)
(* its own call frame; a step of either one is one selection step.          *)

TwoSitePools ==
    { <<SiteCatalogue[1], SiteCatalogue[3]>>,
      <<SiteCatalogue[1], SiteCatalogue[2], SiteCatalogue[4]>> }

TwoRestaurantPools ==
    { <<RestaurantCatalogue[1], RestaurantCatalogue[2]>>,
      <<RestaurantCatalogue[2]>> }

TwoHotelPools == { <<HotelCatalogue[1]>> }

TwoDays == {1, 2}

\* The call frame of an invocation at its entry.
Frame(date, n, hs, rs, ss) ==
    [ pc |-> "start", start_date |-> date, nb_days |-> n, hotels |-> hs,
      restaurants |-> rs, sites |-> ss, hotel |-> <<>>,
      restaurants_ok |-> <<>>, sites_ok |-> <<>>,
      used_restaurants |-> {}, used_activities |-> {}, plan |-> <<>>,
      i |-> 0, d |-> <<>>, morning |-> <<>>, afternoon |-> <<>>,
      breakfast |-> <<>>, lunch |-> <<>>, recap |-> <<>> ]

InitTwo ==
    /\ pc = "start"
    /\ start_date = [y |-> 2024, m |-> 2, d |-> 28]
    /\ nb_days \in TwoDays
    /\ hotels \in TwoHotelPools
    /\ restaurants \in TwoRestaurantPools
    /\ sites \in TwoSitePools
    /\ hotel = <<>>
    /\ restaurants_ok = <<>>
    /\ sites_ok = <<>>
    /\ used_restaurants = {}
    /\ used_activities = {}
    /\ plan = <<>>
    /\ i = 0
    /\ d = <<>>
    /\ morning = <<>>
    /\ afternoon = <<>>
    /\ breakfast = <<>>
    /\ lunch = <<>>
    /\ recap = <<>>
    /\ items = <<>>
    /\ k = 0
    /\ used = {}
    /\ ret = <<>>
    /\ one = <<>>
    /\ pts = <<>>
    /\ dist = <<>>
    /\ \E n \in TwoDays, hs \in TwoHotelPools, rs \in TwoRestaurantPools,
          ss \in TwoSitePools :
         inv2 = Frame([y |-> 2024, m |-> 2, d |-> 28], n, hs, rs, ss)
    /\ ServicesIdle

\* The second invocation leaves the frame of the first, and the variables
\* of the other specifications, alone.
FirstUnchanged ==
    UNCHANGED <<planVars, pickVars, one, pts, dist, train, fetch>>

\* Lines 113-122 in the second invocation.
Start2 ==
    /\ inv2.pc = "start"
    /\ \E h \in pick_unique_hotel(inv2.hotels) :
         inv2' = [inv2 EXCEPT
                    !.hotel = h,
                    !.restaurants_ok = CoordsOk(inv2.restaurants),
                    !.sites_ok = CoordsOk(inv2.sites),
                    !.used_restaurants = {},
                    !.used_activities = {},
                    !.plan = <<>>,
                    !.i = 0,
                    !.pc = IF 0 < inv2.nb_days THEN "morning" ELSE "recap"]
    /\ FirstUnchanged

\* Lines 123-127 in the second invocation.
Morning2 ==
    /\ inv2.pc = "morning"
    /\ \E out \in _pick_nearby(inv2.sites_ok, 2, inv2.used_activities) :
         inv2' = IF out.raised
                 THEN [inv2 EXCEPT
                         !.d = strftime(AddDays(inv2.start_date, inv2.i)),
                         !.pc = "raised"]
                 ELSE [inv2 EXCEPT
                         !.d = strftime(AddDays(inv2.start_date, inv2.i)),
                         !.morning = out.value,
                         !.used_activities = @ \cup Names(out.value),
                         !.pc = "afternoon"]
    /\ FirstUnchanged

\* Lines 129-131 in the second invocation.
Afternoon2 ==
    /\ inv2.pc = "afternoon"
    /\ \E out \in _pick_nearby(inv2.sites_ok, 2, inv2.used_activities) :
         inv2' = IF out.raised
                 THEN [inv2 EXCEPT !.pc = "raised"]
                 ELSE [inv2 EXCEPT
                         !.afternoon = out.value,
                         !.used_activities = @ \cup Names(out.value),
                         !.pc = "breakfast"]
    /\ FirstUnchanged

\* Lines 133-135 in the second invocation.
Breakfast2 ==
    /\ inv2.pc = "breakfast"
    /\ \E r \in _pick_one(inv2.restaurants_ok, inv2.used_restaurants) :
         inv2' = [inv2 EXCEPT
                    !.breakfast = r,
                    !.used_restaurants = @ \cup Names(r),
                    !.pc = "lunch"]
    /\ FirstUnchanged

\* Lines 137-139 in the second invocation.
Lunch2 ==
    /\ inv2.pc = "lunch"
    /\ \E r \in _pick_one(inv2.restaurants_ok, inv2.used_restaurants) :
         inv2' = [inv2 EXCEPT
                    !.lunch = r,
                    !.used_restaurants = @ \cup Names(r),
                    !.pc = "dinner"]
    /\ FirstUnchanged

\* Lines 141-153 in the second invocation, and the step of its loop.
Dinner2 ==
    /\ inv2.pc = "dinner"
    /\ \E r \in _pick_one(inv2.restaurants_ok, inv2.used_restaurants) :
         inv2' = [inv2 EXCEPT
                    !.used_restaurants = @ \cup Names(r),
                    !.plan = Append(@, [ day |-> inv2.i + 1,
                                         date |-> inv2.d,
                                         morning_activities |-> inv2.morning,
                                         afternoon_activities |-> inv2.afternoon,
                                         breakfast |-> inv2.breakfast,
                                         lunch |-> inv2.lunch,
                                         dinner |-> r ]),
                    !.i = @ + 1,
                    !.pc = IF inv2.i + 1 < inv2.nb_days
                           THEN "morning" ELSE "recap"]
    /\ FirstUnchanged

\* Lines 155-160 in the second invocation.
Recap2 ==
    /\ inv2.pc = "recap"
    /\ inv2' = [inv2 EXCEPT
                  !.recap = << [ hotel |-> (IF inv2.hotel = <<>> THEN <<>>
                                            ELSE <<inv2.hotel[1].name>>),
                                 unique_restaurants |-> sorted(inv2.used_restaurants),
                                 unique_activities |-> sorted(inv2.used_activities) ] >>,
                  !.pc = "done"]
    /\ FirstUnchanged

NextTwo ==
    \/ Start \/ Morning \/ Afternoon \/ Breakfast \/ Lunch \/ Dinner \/ Recap
    \/ Start2 \/ Morning2 \/ Afternoon2 \/ Breakfast2 \/ Lunch2 \/ Dinner2
    \/ Recap2

SpecTwo == InitTwo /\ [][NextTwo]_vars

-----------------------------------------------------------------------------
(* One plan_trip invocation run to its end.  The interpreter executes the   *)
(* next statement of a call as long as there is one, so a step that is      *)
(* possible is eventually taken.                                             *)

LiveSitePools ==
    { <<>>,
      <<SiteCatalogue[1], SiteCatalogue[3]>>,
      <<SiteCatalogue[1], SiteCatalogue[2], SiteCatalogue[4]>>,
      <<SiteCatalogue[1], SiteCatalogue[2], SiteCatalogue[4],
        SiteCatalogue[6]>>,
      <<SiteCatalogue[1], SiteCatalogue[2], SiteCatalogue[7]>> }

LiveRestaurantPools ==
    { <<>>,
      <<RestaurantCatalogue[2]>>,
      <<RestaurantCatalogue[1], RestaurantCatalogue[2],
        RestaurantCatalogue[4], RestaurantCatalogue[5]>> }

InitLive ==
    /\ pc = "start"
    /\ start_date \in StartDates
    /\ nb_days \in 0..MaxDays
    /\ hotels \in TwoHotelPools
    /\ restaurants \in LiveRestaurantPools
    /\ sites \in LiveSitePools
    /\ hotel = <<>>
    /\ restaurants_ok = <<>>
    /\ sites_ok = <<>>
    /\ used_restaurants = {}
    /\ used_activities = {}
    /\ plan = <<>>
    /\ i = 0
    /\ d = <<>>
    /\ morning = <<>>
    /\ afternoon = <<>>
    /\ breakfast = <<>>
    /\ lunch = <<>>
    /\ recap = <<>>
    /\ items = <<>>
    /\ k = 0
    /\ used = {}
    /\ ret = <<>>
    /\ OtherIdle

SpecLive == InitLive /\ [][Next]_vars /\ WF_vars(Next)

-----------------------------------------------------------------------------
(* One plan_trip invocation on hotels inputs of every kind of coordinate *)

\* The hotels an input is drawn from: one has a latitude of 0, one has no
\* coordinates, one has a longitude that is no number.
HotelKinds ==
    << POI(21, "a", Num(10), Num(10)),
       POI(22, "h", NoCoord, NoCoord),
       POI(23, "g", Num(0), Num(10)),
       POI(24, "b", Num(20), StrCoord),
       POI(25, "c", Num(10), NoCoord) >>

InitHotel ==
    /\ pc = "start"
    /\ start_date = [y |-> 2024, m |-> 2, d |-> 28]
    /\ nb_days \in 0..MaxDays
    /\ hotels \in SubLists(HotelKinds)
    /\ restaurants \in TwoRestaurantPools
    /\ sites \in TwoSitePools
    /\ hotel = <<>>
    /\ restaurants_ok = <<>>
    /\ sites_ok = <<>>
    /\ used_restaurants = {}
    /\ used_activities = {}
    /\ plan = <<>>
    /\ i = 0
    /\ d = <<>>
    /\ morning = <<>>
    /\ afternoon = <<>>
    /\ breakfast = <<>>
    /\ lunch = <<>>
    /\ recap = <<>>
    /\ items = <<>>
    /\ k = 0
    /\ used = {}
    /\ ret = <<>>
    /\ OtherIdle

SpecHotel == InitHotel /\ [][Next]_vars

-----------------------------------------------------------------------------
(* TrainService.search_trips (src/src/services.py, lines 215-270).  The     *)
(* record train holds the argument cities, the locals of the call, the      *)
(* content of the cache file, and the value returned.  The SNCF API is the  *)
(* environment: every request either answers or fails, and a failure        *)
(* reaches search_trips as a ServiceError (lines 154-157 and 167-169).      *)

MaxCities == 2

\* The city strings of an input: a name, a blank string, a name with a
\* trailing blank.
CityStrings == {"Paris", " ", "Lyon "}

\* Line 222: city.strip().
Strip(c) ==
    CASE c = " " -> ""
      [] c = "Lyon " -> "Lyon"
      [] OTHER -> c

\* The answers of a journey query (line 167): lists of journeys; "bad" is a
\* journey object without the key departure_date_time.
JourneyLists == {<<>>, <<"j1">>, <<"j1", "j2">>, <<"bad">>}

\* The content of the cache file before the call: no file, or an older one.
OldCaches == {<<>>, <<[from |-> "Lille", to |-> "Nice", j |-> "j0"]>>}

\* Lines 230-239 and 244-251: the rows appended for the journeys js; the
\* fields computed from a journey are carried by the journey itself.
Rows(js, from, to) == [n \in 1..Len(js) |-> [from |-> from, to |-> to, j |-> js[n]]]

ErrorValue == [kind |-> "error", rows |-> <<>>]
ListValue(rows) == [kind |-> "list", rows |-> rows]

InitTrain ==
    /\ PlanIdle
    /\ items = <<>>
    /\ k = 0
    /\ used = {}
    /\ ret = <<>>
    /\ one = <<>>
    /\ pts = <<>>
    /\ dist = <<>>
    /\ inv2 = <<>>
    /\ fetch = <<>>
    /\ \E cs \in SeqsUpTo(CityStrings, MaxCities), c \in OldCaches :
         train = [ pc |-> "lille", cities |-> cs, n |-> 0, city |-> "",
                   lille_id |-> <<>>, city_id |-> <<>>, results |-> <<>>,
                   cache |-> c, cache_before |-> c,
                   service_error |-> FALSE, out |-> <<>> ]

TrainOthers == UNCHANGED <<planVars, pickVars, one, pts, dist, inv2, fetch>>

\* Lines 258-259: a ServiceError anywhere in the try block ends the call
\* with the error value.
ServiceErrorCaught ==
    [train EXCEPT !.service_error = TRUE, !.out = ErrorValue, !.pc = "done"]

\* The loop of line 221 goes on to city number n + 1, or ends.
AfterCity(n) == IF n < Len(train.cities) THEN "city" ELSE "finish"

\* Line 219: the station of Lille is looked up.
TrainLille ==
    /\ train.pc = "lille"
    /\ \/ train' = [train EXCEPT !.lille_id = <<"Lille">>,
                                 !.pc = AfterCity(0)]
       \/ train' = ServiceErrorCaught
    /\ TrainOthers

\* Lines 221-225: the next city is stripped, skipped when blank, and its
\* station looked up.
TrainCity ==
    /\ train.pc = "city"
    /\ LET city == Strip(train.cities[train.n + 1])
       IN  IF city = ""
           THEN train' = [train EXCEPT !.city = city, !.n = @ + 1,
                                       !.pc = AfterCity(train.n + 1)]
           ELSE \/ train' = [train EXCEPT !.city = city, !.city_id = <<city>>,
                                          !.pc = "outbound"]
                \/ train' = [ServiceErrorCaught EXCEPT !.city = city]
    /\ TrainOthers

\* TrainInbound writing the cache at the end of every city.
TrainInboundSavingCache ==
    /\ train.pc = "inbound"
    /\ \/ \E js \in JourneyLists :
            IF "bad" \in Range(js)
            THEN train' = [train EXCEPT !.pc = "raised"]
            ELSE train' = [train EXCEPT
                             !.results = @ \o Rows(js, "Lille", train.city),
                             !.cache = train.results
                                       \o Rows(js, "Lille", train.city),
                             !.n = @ + 1,
                             !.pc = AfterCity(train.n + 1)]
       \/ train' = ServiceErrorCaught
    /\ TrainOthers

\* Lines 228-239: the outbound journeys are queried and appended.
TrainOutbound ==
    /\ train.pc = "outbound"
    /\ \/ \E js \in JourneyLists :
            IF "bad" \in Range(js)
            THEN train' = [train EXCEPT !.pc = "raised"]
            ELSE train' = [train EXCEPT
                             !.results = @ \o Rows(js, train.city, "Lille"),
                             !.pc = "inbound"]
       \/ train' = ServiceErrorCaught
    /\ TrainOthers

\* Lines 242-251: the return journeys are queried and appended.
TrainInbound ==
    /\ train.pc = "inbound"
    /\ \/ \E js \in JourneyLists :
            IF "bad" \in Range(js)
            THEN train' = [train EXCEPT !.pc = "raised"]
            ELSE train' = [train EXCEPT
                             !.results = @ \o Rows(js, "Lille", train.city),
                             !.n = @ + 1,
                             !.pc = AfterCity(train.n + 1)]
       \/ train' = ServiceErrorCaught
    /\ TrainOthers

\* Lines 261-270: what _save_cache(rows) can leave in the cache file: the
\* rows, the old content when open fails, a truncated file when a write
\* fails (both failures are caught and printed).
SavedCaches(old, rows) == {rows, old, <<>>}

\* Lines 254-257: the cache is written when there are results, and the
\* results are returned.  os.makedirs (line 262) can raise, which leaves
\* the call with its exception.
TrainFinish ==
    /\ train.pc = "finish"
    /\ IF train.results # <<>>
       THEN \/ \E c \in SavedCaches(train.cache, train.results) :
                 train' = [train EXCEPT !.cache = c,
                                        !.out = ListValue(train.results),
                                        !.pc = "done"]
            \/ train' = [train EXCEPT !.pc = "raised"]
       ELSE train' = [train EXCEPT !.out = ListValue(train.results),
                                   !.pc = "done"]
    /\ TrainOthers

NextTrain ==
    TrainLille \/ TrainCity \/ TrainOutbound \/ TrainInbound \/ TrainFinish

SpecTrain == InitTrain /\ [][NextTrain]_vars

-----------------------------------------------------------------------------
(* fetch_all_paginated (src/scripts/utils.py, lines 55-80).  The record     *)
(* fetch holds the argument batch_size, the locals of the call, the         *)
(* response being handled, and the value returned.  The OpenDataSoft server *)
(* is the environment: it answers a request with any status and any page.   *)
(* requested and handled record what the call has done so far.              *)

MaxPages == 2

\* Lines 57-58: the largest page size asked for.
BatchLimit == 100

\* Line 67: the status of a successful response.
StatusOK == 200

BatchSizes == {1, 50, 100, 101, 250}

\* The statuses of a response: success, two further statuses that are no
\* errors (partial content, not modified), a client and a server error.
Statuses == {200, 206, 304, 404, 500}

\* The "results" of a JSON body: no record, one, two.
Pages == {<<>>, <<"x">>, <<"y", "x">>}

\* A response: its status, whether its body is JSON, the body's results.
Responses == [status : Statuses, json : BOOLEAN, results : Pages]

\* Line 71: requests' Response.raise_for_status raises HTTPError for the
\* client and server error statuses, 400 to 599, and returns for any other.
raise_for_status(status) == status >= 400 /\ status < 600

RECURSIVE Extended(_)
\* Line 77: all_results after extending it with each page of ps in turn.
Extended(ps) ==
    IF ps = <<>> THEN <<>>
    ELSE Extended(SubSeq(ps, 1, Len(ps) - 1)) \o ps[Len(ps)]

InitFetch ==
    /\ PlanIdle
    /\ items = <<>>
    /\ k = 0
    /\ used = {}
    /\ ret = <<>>
    /\ one = <<>>
    /\ pts = <<>>
    /\ dist = <<>>
    /\ inv2 = <<>>
    /\ train = <<>>
    /\ \E b \in BatchSizes :
         fetch = [ pc |-> "start", arg |-> b, batch_size |-> b, offset |-> 0,
                   all_results |-> <<>>, response |-> <<>>,
                   requested |-> <<>>, handled |-> <<>>, out |-> <<>> ]

FetchOthers == UNCHANGED <<planVars, pickVars, one, pts, dist, inv2, train>>

\* Lines 57-61.
FetchStart ==
    /\ fetch.pc = "start"
    /\ fetch' = [fetch EXCEPT
                   !.batch_size = IF @ > BatchLimit THEN BatchLimit ELSE @,
                   !.all_results = <<>>,
                   !.offset = 0,
                   !.pc = "request"]
    /\ FetchOthers

\* Lines 64-65: the page at offset is requested; the request is answered,
\* or requests.get raises (no connection, timeout).
FetchRequest ==
    /\ fetch.pc = "request"
    /\ Len(fetch.requested) <= MaxPages
    /\ \/ \E r \in Responses :
            fetch' = [fetch EXCEPT
                        !.requested = Append(@, fetch.offset),
                        !.response = <<r>>,
                        !.pc = "respond"]
       \/ fetch' = [fetch EXCEPT
                      !.requested = Append(@, fetch.offset),
                      !.pc = "raised"]
    /\ FetchOthers

\* Lines 67-80: the response is handled.  A status other than 200 is
\* printed and raise_for_status called; response.json() raises on a body
\* that is not JSON; an empty page ends the loop and the call returns
\* all_results; any other page is appended and the offset advanced.
FetchRespond ==
    /\ fetch.pc = "respond"
    /\ LET r == fetch.response[1]
           h == [fetch EXCEPT !.handled = Append(@, r), !.response = <<>>]
       IN  IF r.status # StatusOK /\ raise_for_status(r.status)
           THEN fetch' = [h EXCEPT !.pc = "raised"]
           ELSE IF ~ r.json
           THEN fetch' = [h EXCEPT !.pc = "raised"]
           ELSE IF r.results = <<>>
           THEN fetch' = [h EXCEPT !.out = <<h.all_results>>, !.pc = "done"]
           ELSE fetch' = [h EXCEPT !.all_results = @ \o r.results,
                                   !.offset = @ + h.batch_size,
                                   !.pc = "request"]
    /\ FetchOthers

NextFetch == FetchStart \/ FetchRequest \/ FetchRespond

SpecFetch == InitFetch /\ [][NextFetch]_vars

-----------------------------------------------------------------------------
(* Properties *)

RECURSIVE ActivitySlots(_)
\* The activities of a plan in schedule order: morning then afternoon, day
\* by day.
ActivitySlots(p) ==
    IF p = <<>> THEN <<>>
    ELSE Head(p).morning_activities \o Head(p).afternoon_activities
         \o ActivitySlots(Tail(p))

RECURSIVE DiningSlots(_)
\* The restaurants of a plan in schedule order, the None slots left out.
DiningSlots(p) ==
    IF p = <<>> THEN <<>>
    ELSE Head(p).breakfast \o Head(p).lunch \o Head(p).dinner
         \o DiningSlots(Tail(p))

NoRepeatedName(seq) ==
    \A a, b \in 1..Len(seq) : a # b => seq[a].name # seq[b].name

HasBothCoords(x) == Present(x.latitude) /\ Present(x.longitude)

\* The records the specification calls available: non-empty name, not
\* excluded, both coordinates present.
SpecAvailable(pool, excluded) ==
    SelectSeq(pool, LAMBDA x : /\ x.name # ""
                               /\ x.name \notin excluded
                               /\ HasBothCoords(x))

DigitValue(c) == CHOOSE n \in 0..9 : Digits[n + 1] = c

\* The date a "dd-mm-yyyy" character sequence denotes.
ParseDate(s) ==
    [ d |-> 10 * DigitValue(s[1]) + DigitValue(s[2]),
      m |-> 10 * DigitValue(s[4]) + DigitValue(s[5]),
      y |-> 1000 * DigitValue(s[7]) + 100 * DigitValue(s[8])
            + 10 * DigitValue(s[9]) + DigitValue(s[10]) ]

RECURSIVE DaysBeforeMonth(_, _)
DaysBeforeMonth(y, m) ==
    IF m = 1 THEN 0 ELSE DaysBeforeMonth(y, m - 1) + DaysInMonth(y, m - 1)

\* The number of the day in the proleptic Gregorian calendar (1 for
\* 01-01-0001).
ToOrdinal(date) ==
    LET y1 == date.y - 1
    IN  365 * y1 + (y1 \div 4) - (y1 \div 100) + (y1 \div 400)
        + DaysBeforeMonth(date.y, date.m) + date.d

PickReturned == ret # <<>> /\ ~ ret[1].raised

\* C1: the returned plan holds no activity name more than once over all its
\* morning and afternoon lists, whatever the sites pool.
C1_ActivityNamesUnique ==
    pc = "done" => NoRepeatedName(ActivitySlots(plan))

\* C2: the returned plan holds no restaurant name in more than one of its
\* breakfast, lunch and dinner slots, also when records of the restaurants
\* pool share a name.
C2_RestaurantNamesUnique ==
    pc = "done" => NoRepeatedName(DiningSlots(plan))

\* A plan is returned from a pool where two restaurants with coordinates
\* share the name "r", one of them is scheduled, and so is another
\* restaurant.
C2_Witness ==
    /\ pc = "done"
    /\ Cardinality({j \in 1..Len(restaurants_ok) : restaurants_ok[j].name = "r"}) = 2
    /\ Len(DiningSlots(plan)) >= 2
    /\ "r" \in Names(DiningSlots(plan))

\* C3: _pick_nearby(pool, k, excluded) returns at most k items, for every
\* k >= 0.
C3_AtMostK ==
    PickReturned => Len(ret[1].value) <= k

\* C4: every item _pick_nearby returns is a record of the pool with a
\* non-empty name that is not excluded and with latitude and longitude
\* both present.
C4_ReturnedAreEligible ==
    PickReturned =>
        \A j \in 1..Len(ret[1].value) :
            LET x == ret[1].value[j]
            IN  /\ x \in Range(items)
                /\ x.name # ""
                /\ x.name \notin used
                /\ HasBothCoords(x)

\* A call returned something from a pool that also holds a record without
\* a name, an excluded record and a record that lacks a coordinate.
C4_Witness ==
    /\ PickReturned
    /\ ret[1].value # <<>>
    /\ \E x \in Range(items) : x.name = ""
    /\ \E x \in Range(items) : x.name \in used
    /\ \E x \in Range(items) : x.name # "" /\ x.name \notin used /\ ~ HasBothCoords(x)

\* C5: plan_trip returns, for every n >= 0 and every content of the pools,
\* a plan of exactly n day records; record j has day = j and the date of
\* start_date plus j - 1 calendar days.
C5_ExactlyNDays ==
    /\ pc # "raised"
    /\ pc = "done" =>
         /\ Len(plan) = nb_days
         /\ \A j \in 1..Len(plan) :
              /\ plan[j].day = j
              /\ ToOrdinal(ParseDate(plan[j].date)) = ToOrdinal(start_date) + j - 1

\* C6: when at most k records are available (non-empty name, not excluded,
\* both coordinates present), _pick_nearby returns exactly these records,
\* each once and in pool order.
C6_ExhaustionReturnsAvailable ==
    (ret # <<>> /\ Len(SpecAvailable(items, used)) <= k) =>
        /\ ~ ret[1].raised
        /\ ret[1].value = SpecAvailable(items, used)

\* C7: the records _pick_nearby treats as available are exactly the pool
\* records with a non-empty, not excluded name and both coordinates present,
\* a coordinate equal to 0 included.
C7_AvailableIsPresenceFilter ==
    ret # <<>> => Available(items, used) = SpecAvailable(items, used)

IsNumeric(x) == IsNumber(x.latitude) /\ IsNumber(x.longitude)

\* C8: plan_trip and the _pick_nearby calls it makes never raise, whatever
\* the pools hold; a record with a coordinate that is present but no number
\* is left out of every selection.
C8_NeverRaises ==
    /\ pc # "raised"
    /\ \A x \in Range(morning) \cup Range(afternoon) : IsNumeric(x)

NoRecordWithCoords(pool) == \A x \in Range(pool) : ~ HasBothCoords(x)

DegeneratePools ==
    /\ NoRecordWithCoords(hotels)
    /\ NoRecordWithCoords(restaurants)
    /\ NoRecordWithCoords(sites)

\* C9: with pools that are empty or hold no record with coordinates,
\* plan_trip does not raise and returns n day records with empty morning and
\* afternoon lists and None for breakfast, lunch and dinner, and a recap
\* with hotel None and empty lists; with nb_days = 0 the plan is empty and
\* both recap lists are empty.
C9_DegenerateInputsGiveSparseResult ==
    /\ DegeneratePools => pc # "raised"
    /\ (pc = "done" /\ DegeneratePools) =>
         /\ Len(plan) = nb_days
         /\ \A j \in 1..Len(plan) :
              /\ plan[j].morning_activities = <<>>
              /\ plan[j].afternoon_activities = <<>>
              /\ plan[j].breakfast = <<>>
              /\ plan[j].lunch = <<>>
              /\ plan[j].dinner = <<>>
         /\ recap[1].hotel = <<>>
         /\ recap[1].unique_restaurants = <<>>
         /\ recap[1].unique_activities = <<>>
    /\ (pc = "done" /\ nb_days = 0) =>
         /\ plan = <<>>
         /\ recap[1].unique_restaurants = <<>>
         /\ recap[1].unique_activities = <<>>

\* A plan of at least one day is returned from non-empty pools that hold
\* no record with both coordinates.
C9_Witness ==
    /\ pc = "done"
    /\ nb_days >= 1
    /\ DegeneratePools
    /\ hotels # <<>>
    /\ restaurants # <<>>
    /\ sites # <<>>

\* C10: every POI in a morning, afternoon, breakfast, lunch or dinner slot
\* of the plan has both latitude and longitude present.
C10_PlannedStopsHaveCoords ==
    \A j \in 1..Len(plan) :
        /\ \A x \in Range(plan[j].morning_activities) : HasBothCoords(x)
        /\ \A x \in Range(plan[j].afternoon_activities) : HasBothCoords(x)
        /\ \A x \in Range(plan[j].breakfast) : HasBothCoords(x)
        /\ \A x \in Range(plan[j].lunch) : HasBothCoords(x)
        /\ \A x \in Range(plan[j].dinner) : HasBothCoords(x)

\* A plan is returned with a dining slot filled, from a restaurants pool
\* that holds a named restaurant lacking a coordinate.
C10_Witness ==
    /\ pc = "done"
    /\ \E x \in Range(restaurants) : x.name # "" /\ ~ HasBothCoords(x)
    /\ DiningSlots(plan) # <<>>
    /\ ActivitySlots(plan) # <<>>

C12_PickOneEligibility ==
    LET eligible == {x \in Range(items) : x.name # "" /\ x.name \notin used}
    IN  /\ \A x \in eligible : <<x>> \in _pick_one(items, used)
        /\ one # <<>> =>
             /\ one[1] = <<>> <=> eligible = {}
             /\ one[1] # <<>> => one[1][1] \in eligible

\* A call returned a record that has no longitude.
C12_Witness ==
    /\ one # <<>>
    /\ one[1] # <<>>
    /\ ~ HasBothCoords(one[1][1])

\* The restaurants of a pool that can be scheduled according to the
\* specification: a non-empty name and both coordinates present.
EligibleRestaurants(pool) ==
    {j \in 1..Len(pool) : pool[j].name # "" /\ HasBothCoords(pool[j])}

\* C13: the name of a picked restaurant is in used_restaurants before the
\* next dining pick, so from a pool with a single eligible restaurant the
\* returned plan has day 1's breakfast filled and None in every later dining
\* slot.
C13_SingleRestaurantFillsFirstSlotOnly ==
    /\ pc \in {"lunch", "dinner"} => Names(breakfast) \subseteq used_restaurants
    /\ pc = "dinner" => Names(lunch) \subseteq used_restaurants
    /\ Names(DiningSlots(plan)) \subseteq used_restaurants
    /\ (pc = "done" /\ nb_days >= 1 /\ Cardinality(EligibleRestaurants(restaurants)) = 1) =>
         /\ plan[1].breakfast # <<>>
         /\ plan[1].lunch = <<>>
         /\ plan[1].dinner = <<>>
         /\ \A j \in 2..Len(plan) :
              plan[j].breakfast = <<>> /\ plan[j].lunch = <<>> /\ plan[j].dinner = <<>>

StrictlyAscending(seq) ==
    \A a, b \in 1..Len(seq) : a < b => NameRank(seq[a]) < NameRank(seq[b])

\* C14: the recap of a returned plan lists, in ascending order and without
\* duplicates, exactly the names that occur in the plan: unique_activities
\* the names of all morning and afternoon items, unique_restaurants the
\* names of all breakfast, lunch and dinner entries that are not None.
C14_RecapListsPlanNames ==
    pc = "done" =>
        /\ StrictlyAscending(recap[1].unique_activities)
        /\ Range(recap[1].unique_activities) = Names(ActivitySlots(plan))
        /\ StrictlyAscending(recap[1].unique_restaurants)
        /\ Range(recap[1].unique_restaurants) = Names(DiningSlots(plan))

\* A plan is returned whose recap lists three activities and two
\* restaurants, neither list in the order in which the plan schedules them.
C14_Witness ==
    /\ pc = "done"
    /\ Len(plan) >= 1
    /\ Len(recap[1].unique_activities) >= 3
    /\ Len(recap[1].unique_restaurants) >= 2
    /\ ActivitySlots(plan)[1].name # recap[1].unique_activities[1]
    /\ DiningSlots(plan)[1].name # recap[1].unique_restaurants[1]

\* C15: in every returned plan each morning_activities and each
\* afternoon_activities list holds between 0 and 2 items, so for a trip of
\* n days unique_activities has at most 4*n entries and unique_restaurants
\* at most 3*n entries.
C15_SlotAndRecapSizes ==
    pc = "done" =>
        /\ \A j \in 1..Len(plan) :
             /\ Len(plan[j].morning_activities) \in 0..2
             /\ Len(plan[j].afternoon_activities) \in 0..2
        /\ Len(recap[1].unique_activities) <= 4 * nb_days
        /\ Len(recap[1].unique_restaurants) <= 3 * nb_days

\* A plan is returned with a day of two morning and two afternoon
\* activities, and its recap lists 4*n activities.
C15_Witness ==
    /\ pc = "done"
    /\ Len(plan) >= 1
    /\ Len(plan[1].morning_activities) = 2
    /\ Len(plan[1].afternoon_activities) = 2
    /\ Len(recap[1].unique_activities) = 4 * nb_days
    /\ Len(recap[1].unique_restaurants) >= 2

\* The names of the activities placed in a slot so far: those of the
\* finished days and those of the current day's lists already selected.
PlacedActivities ==
    Names(ActivitySlots(plan))
    \cup (IF pc \in {"afternoon", "breakfast", "lunch", "dinner"}
          THEN Names(morning) ELSE {})
    \cup (IF pc \in {"breakfast", "lunch", "dinner"}
          THEN Names(afternoon) ELSE {})

\* The names of the dining picks so far.
PlacedRestaurants ==
    Names(DiningSlots(plan))
    \cup (IF pc \in {"lunch", "dinner"} THEN Names(breakfast) ELSE {})
    \cup (IF pc = "dinner" THEN Names(lunch) ELSE {})

\* C16: the hotel is chosen once per plan_trip call, only among hotels with
\* both coordinates present (none when there is no such hotel), and it is
\* independent of the usage sets: its name is never added to
\* used_activities or used_restaurants, a hotel sharing its name with a
\* site or restaurant does not prevent that site or restaurant from being
\* scheduled, and the hotels input has no effect on any day record.
C16_HotelIndependent ==
    /\ [](/\ hotel # <<>> =>
               (hotel[1] \in Range(hotels) /\ HasBothCoords(hotel[1]))
          /\ (pc # "start" /\ NoRecordWithCoords(hotels)) => hotel = <<>>
          /\ (pc = "morning" /\ i = 0) =>
               (used_activities = {} /\ used_restaurants = {})
          /\ pc \notin {"start", "raised"} =>
               /\ used_activities = PlacedActivities
               /\ used_restaurants = PlacedRestaurants)
    /\ [][/\ pc # "start" => hotel' = hotel
          /\ (pc = "morning" /\ pc' = "afternoon") =>
               Returned(morning') \in
                   _pick_nearby(CoordsOk(sites), 2, PlacedActivities)
          /\ (pc = "afternoon" /\ pc' = "breakfast") =>
               Returned(afternoon') \in
                   _pick_nearby(CoordsOk(sites), 2, PlacedActivities)
          /\ pc = "breakfast" =>
               breakfast' \in _pick_one(CoordsOk(restaurants), PlacedRestaurants)
          /\ pc = "lunch" =>
               lunch' \in _pick_one(CoordsOk(restaurants), PlacedRestaurants)
          /\ pc = "dinner" =>
               /\ plan'[Len(plan')].dinner \in
                      _pick_one(CoordsOk(restaurants), PlacedRestaurants)
               /\ SubSeq(plan', 1, Len(plan)) = plan
         ]_vars

\* A plan is returned with a chosen hotel, from a hotels input that also
\* listed a hotel without coordinates, and a site with the hotel's name is
\* scheduled.
C16_Witness ==
    /\ pc = "done"
    /\ hotel # <<>>
    /\ recap[1].hotel = <<hotel[1].name>>
    /\ \E x \in Range(hotels) : ~ HasBothCoords(x)
    /\ hotel[1].name \in Names(ActivitySlots(plan))

\* The names the second invocation has placed in activity slots so far.
PlacedActivities2 ==
    Names(ActivitySlots(inv2.plan))
    \cup (IF inv2.pc \in {"afternoon", "breakfast", "lunch", "dinner"}
          THEN Names(inv2.morning) ELSE {})
    \cup (IF inv2.pc \in {"breakfast", "lunch", "dinner"}
          THEN Names(inv2.afternoon) ELSE {})

\* The names of the dining picks of the second invocation so far.
PlacedRestaurants2 ==
    Names(DiningSlots(inv2.plan))
    \cup (IF inv2.pc \in {"lunch", "dinner"} THEN Names(inv2.breakfast) ELSE {})
    \cup (IF inv2.pc = "dinner" THEN Names(inv2.lunch) ELSE {})

\* Each invocation starts its day loop with empty usage sets, and at every
\* step excludes exactly the names it has placed itself.
UsageSetsLocal ==
    /\ (pc = "morning" /\ i = 0) =>
         (used_activities = {} /\ used_restaurants = {})
    /\ (inv2.pc = "morning" /\ inv2.i = 0) =>
         (inv2.used_activities = {} /\ inv2.used_restaurants = {})
    /\ pc \notin {"start", "raised"} =>
         /\ used_activities = PlacedActivities
         /\ used_restaurants = PlacedRestaurants
    /\ inv2.pc \notin {"start", "raised"} =>
         /\ inv2.used_activities = PlacedActivities2
         /\ inv2.used_restaurants = PlacedRestaurants2

\* C17: usage sets are local to one plan_trip invocation: when two
\* invocations run one after the other or interleaved step by step, on the
\* same or on different pools, each starts with empty used_activities and
\* used_restaurants, no name used by one is excluded in the other, and each
\* resulting plan satisfies the uniqueness constraints on its own.
C17_InvocationsIndependent ==
    /\ UsageSetsLocal
    /\ pc = "done" =>
         /\ NoRepeatedName(ActivitySlots(plan))
         /\ NoRepeatedName(DiningSlots(plan))
    /\ inv2.pc = "done" =>
         /\ NoRepeatedName(ActivitySlots(inv2.plan))
         /\ NoRepeatedName(DiningSlots(inv2.plan))

\* C18: for all coordinate pairs A and B, _haversine(A, B) equals
\* _haversine(B, A), and _haversine(A, A) equals 0.
C18_HaversineSymmetricZeroOnSelf ==
    dist # <<>> => (dist[1].ab = dist[1].ba /\ dist[1].aa = 0)

\* The distance between two points of different latitude and longitude,
\* neither on the equator, was computed and is positive.
C18_Witness ==
    /\ dist # <<>>
    /\ pts[1].lat # pts[2].lat
    /\ pts[1].lon # pts[2].lon
    /\ pts[1].lat # 0
    /\ pts[2].lat # 0
    /\ dist[1].ab > 0

\* C19: when more than k records are available, the sequence returned by
\* _pick_nearby is a nearest-neighbour chain in selection order: the first
\* item is the seed, an available record, and every later item is, among
\* the available records not yet in the result when it was appended, one at
\* minimum haversine distance from the item immediately before it.
C19_NearestNeighbourChain ==
    (PickReturned /\ Len(Available(items, used)) > k) =>
        LET res == ret[1].value
            available == Available(items, used)
        IN  /\ res # <<>>
            /\ res[1] \in Range(available)
            /\ \A j \in 2..Len(res) :
                 LET candidates ==
                         Range(available) \ {res[m] : m \in 1..(j - 1)}
                 IN  /\ res[j] \in candidates
                     /\ \A c \in candidates :
                          DistKey(res[j - 1], res[j]) <= DistKey(res[j - 1], c)

\* C20: during one plan_trip invocation the usage sets only grow: no step
\* removes a name from used_activities or used_restaurants, and after each
\* selection step used_activities equals the set of names of all activities
\* placed in slots so far (the morning names being recorded before the same
\* day's afternoon selection runs) and used_restaurants equals the set of
\* names of all dining picks so far.
C20_UsageSetsGrow ==
    /\ [][/\ used_activities \subseteq used_activities'
          /\ used_restaurants \subseteq used_restaurants']_vars
    /\ [](/\ pc \in {"morning", "afternoon", "breakfast", "lunch", "dinner",
                     "recap", "done"} =>
               /\ used_activities = PlacedActivities
               /\ used_restaurants = PlacedRestaurants
          /\ pc = "afternoon" => Names(morning) \subseteq used_activities)

\* The second day's selections run with the names of the first day's four
\* activities and two dining picks in the sets, so that they select nothing.
C20_Witness ==
    /\ pc = "lunch"
    /\ i = 1
    /\ Len(plan) = 1
    /\ Cardinality(used_activities) = 4
    /\ Cardinality(used_restaurants) = 2
    /\ morning = <<>>
    /\ breakfast = <<>>

\* A selection of the invocation came out short for lack of available
\* records: a morning or afternoon list of fewer than 2 items, or a dining
\* pick of None, in a finished day or in the current one.
PoolsExhausted ==
    \/ \E j \in 1..Len(plan) :
         \/ Len(plan[j].morning_activities) < 2
         \/ Len(plan[j].afternoon_activities) < 2
         \/ plan[j].breakfast = <<>>
         \/ plan[j].lunch = <<>>
         \/ plan[j].dinner = <<>>
    \/ pc \in {"afternoon", "breakfast", "lunch", "dinner"} /\ Len(morning) < 2
    \/ pc \in {"breakfast", "lunch", "dinner"} /\ Len(afternoon) < 2
    \/ pc \in {"lunch", "dinner"} /\ breakfast = <<>>
    \/ pc = "dinner" /\ lunch = <<>>

\* C21: plan_trip has no rollback or retry: a day record, once appended to
\* the plan, is never changed or removed by the processing of later days,
\* and when the pools are exhausted on some day the builder still goes on
\* through every remaining day and reaches the final recap step.
C21_NoRollbackAndGoesOn ==
    /\ [][/\ Len(plan') >= Len(plan)
          /\ SubSeq(plan', 1, Len(plan)) = plan]_vars
    /\ PoolsExhausted ~> (pc = "done" /\ Len(plan) = nb_days /\ recap # <<>>)

\* A plan of two days is returned whose first day already has a short
\* slot and whose second day is empty.
C21_Witness ==
    /\ pc = "done"
    /\ Len(plan) = 2
    /\ plan[1].morning_activities # <<>>
    /\ Len(plan[1].afternoon_activities) < 2
    /\ plan[2].morning_activities = <<>>
    /\ plan[2].dinner = <<>>

\* C22: every call terminates: the chain loop of _pick_nearby ends after at
\* most k-1 iterations, and plan_trip ends after exactly nb_days iterations
\* of its day loop for every finite pool.
C22_BoundedLoops ==
    /\ pc \in {"morning", "afternoon"} =>
         \A s \in Seeds(sites_ok, 2, used_activities) :
             LoopIterations(sites_ok, 2, used_activities, s) <= 2 - 1
    /\ pc \in {"done", "raised"} => i = nb_days
    /\ i <= nb_days

\* The activity list of slot s of a plan, the slots taken in schedule
\* order: day 1 morning, day 1 afternoon, day 2 morning, ...
ActivitySlot(p, s) ==
    IF s % 2 = 1 THEN p[(s + 1) \div 2].morning_activities
    ELSE p[s \div 2].afternoon_activities

\* The dining pick of slot t of a plan, the slots taken in schedule order:
\* breakfast, lunch, dinner, day by day.
DiningSlot(p, t) ==
    LET day == p[(t + 2) \div 3]
    IN  CASE t % 3 = 1 -> day.breakfast
          [] t % 3 = 2 -> day.lunch
          [] t % 3 = 0 -> day.dinner

\* C23: slots are filled front to back until the pool runs out: if some
\* activity slot holds fewer than 2 items then every later activity slot
\* is empty, and if some dining slot is none then every later dining slot
\* is none.
C23_FilledFrontToBack ==
    pc = "done" =>
        /\ \A s, t \in 1..(2 * Len(plan)) :
             (s < t /\ Len(ActivitySlot(plan, s)) < 2)
                 => ActivitySlot(plan, t) = <<>>
        /\ \A s, t \in 1..(3 * Len(plan)) :
             (s < t /\ DiningSlot(plan, s) = <<>>)
                 => DiningSlot(plan, t) = <<>>

\* A plan of two days is returned whose day 1 has two morning activities
\* and one afternoon activity, a breakfast and a lunch but no dinner, and
\* whose day 2 is empty.
C23_Witness ==
    /\ pc = "done"
    /\ Len(plan) = 2
    /\ Len(plan[1].morning_activities) = 2
    /\ Len(plan[1].afternoon_activities) = 1
    /\ plan[1].breakfast # <<>>
    /\ plan[1].lunch # <<>>
    /\ plan[1].dinner = <<>>
    /\ plan[2].morning_activities = <<>>
    /\ plan[2].breakfast = <<>>

\* The records of a pool with a non-empty name and both coordinates present.
NamedWithCoords(pool) ==
    {j \in 1..Len(pool) : pool[j].name # "" /\ HasBothCoords(pool[j])}

Min(a, b) == IF a <= b THEN a ELSE b

\* C24: when the names inside each pool are pairwise distinct, a plan of n
\* days uses as many venues as the pools allow: the number of activities
\* over all slots equals min(4*n, number of sites with non-empty name and
\* both coordinates), and the number of filled dining slots equals
\* min(3*n, number of restaurants with non-empty name and both coordinates).
C24_UsesAsManyAsPoolsAllow ==
    (pc = "done" /\ NoRepeatedName(sites) /\ NoRepeatedName(restaurants)) =>
        /\ Len(ActivitySlots(plan))
             = Min(4 * nb_days, Cardinality(NamedWithCoords(sites)))
        /\ Len(DiningSlots(plan))
             = Min(3 * nb_days, Cardinality(NamedWithCoords(restaurants)))

\* C25: when more than k records are available and k >= 1, _pick_nearby
\* returns exactly k items that are pairwise distinct records of the pool,
\* for every pool including one that lists the same record more than once.
C25_ExactlyKDistinctRecords ==
    (PickReturned /\ k >= 1 /\ Len(Available(items, used)) > k) =>
        LET res == ret[1].value
        IN  /\ Len(res) = k
            /\ \A a, b \in 1..Len(res) : a # b => res[a] # res[b]
            /\ Range(res) \subseteq Range(items)

\* The number of entries of seq that are the record x.
Count(seq, x) == Cardinality({j \in 1..Len(seq) : seq[j] = x})

\* The position of the first entry of seq that is the record x.
FirstIndex(seq, x) ==
    CHOOSE j \in 1..Len(seq) : seq[j] = x /\ \A m \in 1..(j - 1) : seq[m] # x

\* The candidates left when item j of the result res is appended: the
\* entries of the available list that are not the seed and have not been
\* appended before.
CandidatesLeft(res, j) ==
    LET candidates == Remaining(Available(items, used), res[1])
    IN  {x \in Range(candidates) :
            Count(candidates, x) > Count(SubSeq(res, 2, j - 1), x)}

\* The candidates left for item j that are as near to item j-1 as item j.
TiedCandidates(res, j) ==
    {c \in CandidatesLeft(res, j) :
        DistKey(res[j - 1], c) = DistKey(res[j - 1], res[j])}

\* Runs that draw the same seed record return the same sequence.
SameSeedSameResult ==
    Len(Available(items, used)) > k =>
        \A s1, s2 \in Seeds(items, k, used) :
            Available(items, used)[s1] = Available(items, used)[s2]
                => PickNearbySeeded(items, k, used, s1)
                     = PickNearbySeeded(items, k, used, s2)

\* C26: the random seed choice is the only source of nondeterminism in
\* _pick_nearby: two runs on the same pool, k and excluded set that choose
\* the same seed record return the same sequence, distance ties being
\* broken in favour of the candidate that comes first in pool order.
C26_TiesBrokenByPoolOrder ==
    /\ ret = <<>> => SameSeedSameResult
    /\ (PickReturned /\ Len(Available(items, used)) > k) =>
         LET res == ret[1].value
         IN  \A j \in 2..Len(res) : \A c \in TiedCandidates(res, j) :
                 FirstIndex(items, res[j]) <= FirstIndex(items, c)

\* C26 as amended: runs that choose the same seed record return the same
\* sequence, every later item being a candidate nearest to the item before
\* it, and distance ties being broken in favour of the candidate that
\* comes first in the candidate list as the previous iteration left it:
\* in pool order for the second item, and for a later item in favour of a
\* candidate nearest to the item two places before it.
C26_TiesBrokenByCandidateOrder ==
    /\ ret = <<>> => SameSeedSameResult
    /\ (PickReturned /\ Len(Available(items, used)) > k) =>
         LET res == ret[1].value
         IN  \A j \in 2..Len(res) :
                 /\ res[j] \in CandidatesLeft(res, j)
                 /\ \A c \in CandidatesLeft(res, j) :
                      DistKey(res[j - 1], res[j]) <= DistKey(res[j - 1], c)
                 /\ \A c \in TiedCandidates(res, j) :
                      IF j = 2
                      THEN FirstIndex(items, res[j]) <= FirstIndex(items, c)
                      ELSE DistKey(res[j - 2], res[j]) <= DistKey(res[j - 2], c)

\* A call returned three items, the third of which had a candidate at the
\* same distance from the second that comes before it in the pool.
C26_Witness ==
    /\ PickReturned
    /\ Len(Available(items, used)) > k
    /\ Len(ret[1].value) >= 3
    /\ \E c \in TiedCandidates(ret[1].value, 3) :
         FirstIndex(items, c) < FirstIndex(items, ret[1].value[3])

\* C27: the recap's hotel field is none only when the hotels input holds no
\* hotel with both coordinates present; whenever at least one hotel has
\* both coordinates, the recap reports the name of a hotel from the input
\* that has both coordinates.
C27_RecapHotel ==
    pc = "done" =>
        IF NoRecordWithCoords(hotels)
        THEN recap[1].hotel = <<>>
        ELSE \E h \in Range(hotels) :
                 HasBothCoords(h) /\ recap[1].hotel = <<h.name>>

\* C28: TrainService.search_trips is all-or-nothing: if the station lookup
\* or journey query of any city fails with a ServiceError, the call returns
\* an error value instead of a list, the journeys already collected for
\* earlier cities are discarded, and the trip cache file is left as it was;
\* the cache is written only after every city succeeded and at least one
\* journey was found.
C28_AllOrNothing ==
    /\ train.service_error =>
         /\ train.pc = "done"
         /\ train.out = ErrorValue
         /\ train.cache = train.cache_before
    /\ (train.pc = "done" /\ train.out.kind = "list") =>
         /\ ~ train.service_error
         /\ train.n = Len(train.cities)
         /\ train.out.rows = train.results
    /\ train.cache # train.cache_before =>
         /\ ~ train.service_error
         /\ train.n = Len(train.cities)
         /\ train.results # <<>>
         /\ train.pc = "done"

\* A call over two cities ended with the error value after journeys of the
\* first city had been collected, and the older cache file is still there.
C28_Witness ==
    /\ train.pc = "done"
    /\ train.service_error
    /\ train.n = 1
    /\ train.results # <<>>
    /\ train.cache_before # <<>>
    /\ train.cache = train.cache_before

\* The pages of the responses handled so far.
HandledPages == [n \in 1..Len(fetch.handled) |-> fetch.handled[n].results]

\* C29: fetch_all_paginated requests pages at offsets 0, b, 2b, ... with
\* b = min(batch_size, 100), stops at the first page whose results are empty,
\* and returns the records of all earlier pages concatenated in request
\* order; on any non-200 response it raises without returning the records
\* fetched so far.
C29_PagesUntilEmptyOrRaise ==
    /\ \A n \in 1..Len(fetch.requested) :
         fetch.requested[n] = (n - 1) * Min(fetch.arg, 100)
    /\ Len(fetch.requested) >= 2 =>
         \A n \in 1..(Len(fetch.requested) - 1) : HandledPages[n] # <<>>
    /\ fetch.pc = "done" =>
         /\ HandledPages[Len(fetch.handled)] = <<>>
         /\ Len(fetch.handled) = Len(fetch.requested)
         /\ fetch.out
              = <<Extended(SubSeq(HandledPages, 1, Len(fetch.handled) - 1))>>
    /\ (\E n \in 1..Len(fetch.handled) : fetch.handled[n].status # 200) =>
         /\ fetch.pc = "raised"
         /\ fetch.out = <<>>

====
